---- MODULE Spec2Model ----
(***************************************************************************)
(* Model of inserter.py, the Exodus (NES) text inserter.                   *)
(*                                                                         *)
(* A character is its code point (the text file is decoded as iso-8859-1,  *)
(* so 0..255), a string is a sequence of characters, a bytearray a         *)
(* sequence of 0..255.  The ROM image is its size plus the bytes that      *)
(* differ from the original content (OrigByte).                            *)
(*                                                                         *)
(* Spec    : one run of the script (__main__).                             *)
(* SpecEnc : characterReplacer and encodeTextsAndPointers called as pure   *)
(*           functions on arbitrary arguments.                             *)
(***************************************************************************)
EXTENDS Integers, Sequences, FiniteSets, TLC

VARIABLES pc, argc, firstLine, body, rom, rom0, lengthText, text,
          replacedText, textStartOffset, pointersDistance, encodedData,
          totalBytes, pointersList, excess, freeBytes, status, error, writes

vars == <<pc, argc, firstLine, body, rom, rom0, lengthText, text,
          replacedText, textStartOffset, pointersDistance, encodedData,
          totalBytes, pointersList, excess, freeBytes, status, error, writes>>

-----------------------------------------------------------------------------
(* Bounds and input sets *)

\* longest text-file body (everything after the first line), in characters
MaxFile == 4

\* newline, space, '?' (key), 'e-acute' (key, two bytes), 'u-umlaut' (no key, two bytes)
Alphabet == {10, 32, 63, 233, 252}

Bodies == UNION {[1..n -> Alphabet] : n \in 0..MaxFile}

\* first lines: "3\n", " 4\n", "+8\n", "-1\n", "x\n", "4x\n", "" (empty file), "1_0\n"
FirstLines == { <<51, 10>>, <<32, 52, 10>>, <<43, 56, 10>>, <<45, 49, 10>>,
                <<120, 10>>, <<52, 120, 10>>, <<>>, <<49, 95, 48, 10>> }

\* "20000\n"
BigFirstLine == <<50, 48, 48, 48, 48, 10>>

ArgCounts == {2, 3}

\* image sizes: one ending inside the pointer table's range, one holding both ranges
RomSizes == {83190, 131088}

None == <<>>

Some(v) == <<v>>

Max(a, b) == IF a >= b THEN a ELSE b

-----------------------------------------------------------------------------
(* Program constants *)

TEXTSTARTOFFSET == 65659

POINTERSSTARTOFFSET == 83188

POINTERSDISTANCE == 32784

\* a body whose encoding is one byte longer than the gap between the two offsets
LongBody == [i \in 1..((POINTERSSTARTOFFSET - TEXTSTARTOFFSET) \div 2 + 1) |-> 252]

\* arguments for the calls of SpecEnc: corrected pointers below 0, in range, above 0xFFFF
Offsets == {0, TEXTSTARTOFFSET, 65530}

Distances == {0, POINTERSDISTANCE, 3}

-----------------------------------------------------------------------------
(* Python's integer operators *)

RECURSIVE BitAnd(_, _)
\* x & m for m >= 0 (x of either sign, two's complement)
BitAnd(x, m) ==
    IF m = 0 THEN 0
    ELSE (x % 2) * (m % 2) + 2 * BitAnd(x \div 2, m \div 2)

RECURSIVE BitOr(_, _)
\* a | b for a, b >= 0
BitOr(a, b) ==
    IF a = 0 THEN b
    ELSE IF b = 0 THEN a
    ELSE Max(a % 2, b % 2) + 2 * BitOr(a \div 2, b \div 2)

\* x >> 8 (arithmetic shift: floor division)
Shr8(x) == x \div 256

\* x << 8
Shl8(x) == x * 256

-----------------------------------------------------------------------------
(* str.strip, int(), str.encode *)

\* the characters str.strip() and int() treat as whitespace, in 0..255
IsSpace(c) == c \in {9, 10, 11, 12, 13, 28, 29, 30, 31, 32, 133, 160}

RECURSIVE LStrip(_)
LStrip(s) == IF s # <<>> /\ IsSpace(Head(s)) THEN LStrip(Tail(s)) ELSE s

RECURSIVE RStrip(_)
RStrip(s) ==
    IF s # <<>> /\ IsSpace(s[Len(s)]) THEN RStrip(SubSeq(s, 1, Len(s) - 1)) ELSE s

\* str.strip()
Strip(s) == RStrip(LStrip(s))

IsDigit(c) == c \in 48..57

RECURSIVE DigitsValue(_, _)
\* the value of a digit string, underscores skipped
DigitsValue(s, acc) ==
    IF s = <<>> THEN acc
    ELSE IF Head(s) = 95 THEN DigitsValue(Tail(s), acc)
    ELSE DigitsValue(Tail(s), 10 * acc + (Head(s) - 48))

\* int(s): None for ValueError, Some(value) otherwise.  Surrounding whitespace,
\* one optional sign, digits with single underscores between them.
ParseInt(s) ==
    LET t == Strip(s)
        signed == t # <<>> /\ t[1] \in {43, 45}
        d == IF signed THEN Tail(t) ELSE t
        ok == /\ d # <<>>
              /\ \A i \in 1..Len(d) : IsDigit(d[i]) \/ d[i] = 95
              /\ IsDigit(d[1]) /\ IsDigit(d[Len(d)])
              /\ \A i \in 1..(Len(d) - 1) : ~(d[i] = 95 /\ d[i + 1] = 95)
    IN IF ~ok THEN None
       ELSE IF signed /\ t[1] = 45 THEN Some(0 - DigitsValue(d, 0))
       ELSE Some(DigitsValue(d, 0))

\* one character's UTF-8 encoding (code points below 0x800)
Utf8Char(c) == IF c < 128 THEN <<c>> ELSE <<192 + (c \div 64), 128 + (c % 64)>>

RECURSIVE Utf8Range(_, _, _)
\* the encoding of s[lo..hi], by halves
Utf8Range(s, lo, hi) ==
    IF lo > hi THEN <<>>
    ELSE IF lo = hi THEN Utf8Char(s[lo])
    ELSE LET mid == (lo + hi) \div 2
         IN Utf8Range(s, lo, mid) \o Utf8Range(s, mid + 1, hi)

\* s.encode('utf-8', errors='ignore')
Utf8Encode(s) == Utf8Range(s, 1, Len(s))

-----------------------------------------------------------------------------
(* readTextFile *)

RECURSIVE SortedSeq(_)
SortedSeq(S) ==
    IF S = {} THEN <<>>
    ELSE LET m == CHOOSE x \in S : \A y \in S : x <= y
         IN <<m>> \o SortedSeq(S \ {m})

\* f.readlines(): the lines of b, each with its newline when it has one
ReadLines(b) ==
    LET nl == {i \in 1..Len(b) : b[i] = 10}
        starts == SortedSeq(({1} \cup {i + 1 : i \in nl}) \cap (1..Len(b)))
        lineEnd(s) == LET after == {i \in nl : i >= s}
                      IN IF after = {} THEN Len(b)
                         ELSE CHOOSE x \in after : \A y \in after : x <= y
    IN [k \in 1..Len(starts) |-> SubSeq(b, starts[k], lineEnd(starts[k]))]

\* texts = [line.strip() for line in f.readlines()]
StripLines(lines) == [k \in 1..Len(lines) |-> Strip(lines[k])]

-----------------------------------------------------------------------------
(* characterReplacer *)

\* replacement_dict.get(char, char)
DictGet(char) ==
    CASE char = 63  -> 35      \* '?' : '#'
      [] char = 191 -> 36      \* inverted '?' : '$'
      [] char = 225 -> 37      \* a-acute : '%'
      [] char = 233 -> 75      \* e-acute : 'K'
      [] char = 237 -> 87      \* i-acute : 'W'
      [] char = 243 -> 88      \* o-acute : 'X'
      [] char = 250 -> 119     \* u-acute : 'w'
      [] char = 241 -> 41      \* n-tilde : ')'
      [] char = 193 -> 39      \* A-acute : "'"
      [] char = 201 -> 40      \* E-acute : '('
      [] OTHER -> char

\* the substitution stops before the record's last character
ReplaceTextMut(t) ==
    [k \in 1..Len(t) |-> IF k = Len(t) THEN t[k] ELSE DictGet(t[k])]

\* ''.join(replacement_dict.get(char, char) for char in text)
ReplaceText(t) == [k \in 1..Len(t) |-> DictGet(t[k])]

characterReplacer(textList) == [i \in 1..Len(textList) |-> ReplaceText(textList[i])]

-----------------------------------------------------------------------------
(* encodeTextsAndPointers *)

\* text[:-1]
TextContent(t) == SubSeq(t, 1, Len(t) - 1)

\* text[-1:]
Breaker(t) == IF t = <<>> THEN <<>> ELSE <<t[Len(t)]>>

\* the pointer leaves the breaker's bytes out
LoopBodyMut(st, t, tso) ==
    LET c == Utf8Encode(TextContent(t))
        b == Utf8Encode(Breaker(t))
        total == st.totalBytes + Len(c) + Len(b)
    IN [encodedData |-> st.encodedData \o c \o b,
        totalBytes  |-> total,
        pointers    |-> Append(st.pointers, tso + st.totalBytes + Len(c))]

\* one pass of the loop over texts
LoopBody(st, t, tso) ==
    LET c == Utf8Encode(TextContent(t))
        b == Utf8Encode(Breaker(t))
        total == st.totalBytes + Len(c) + Len(b)
    IN [encodedData |-> st.encodedData \o c \o b,
        totalBytes  |-> total,
        pointers    |-> Append(st.pointers, tso + total)]

RECURSIVE EncodeLoop(_, _, _, _)
\* for text in texts, from the k-th on
EncodeLoop(texts, k, st, tso) ==
    IF k > Len(texts) THEN st
    ELSE EncodeLoop(texts, k + 1, LoopBody(st, texts[k], tso), tso)

\* the pointer past the last record is kept
PopMut(pointers) == pointers

\* pointers.pop()
Pop(pointers) == SubSeq(pointers, 1, Len(pointers) - 1)

\* [ptr - pointersDistance for ptr in pointers]
SubtractDistance(pointers, pd) == [i \in 1..Len(pointers) |-> pointers[i] - pd]

\* the bytes are not reversed
ReverseBytesMut(ptr) == BitAnd(ptr, 65535)

\* ((ptr >> 8) & 0xFF) | ((ptr & 0xFF) << 8)
ReverseBytes(ptr) == BitOr(BitAnd(Shr8(ptr), 255), Shl8(BitAnd(ptr, 255)))

RECURSIVE PointersToBytes(_, _, _)
\* for ptr in pointers: append (ptr >> 8) & 0xFF, then ptr & 0xFF
PointersToBytes(pointers, k, out) ==
    IF k > Len(pointers) THEN out
    ELSE PointersToBytes(pointers, k + 1,
             Append(Append(out, BitAnd(Shr8(pointers[k]), 255)),
                    BitAnd(pointers[k], 255)))

encodeTextsAndPointers(texts, tso, pd) ==
    LET st == EncodeLoop(texts, 1,
                  [encodedData |-> <<>>, totalBytes |-> 0, pointers |-> <<tso>>], tso)
        corrected == SubtractDistance(Pop(st.pointers), pd)
        reversed == [i \in 1..Len(corrected) |-> ReverseBytes(corrected[i])]
    IN [encodedData  |-> st.encodedData,
        totalBytes   |-> st.totalBytes,
        pointersData |-> PointersToBytes(reversed, 1, <<>>)]

-----------------------------------------------------------------------------
(* The ROM image and writeROM *)

\* the image's content before the run
OrigByte(i) == i % 256

EmptyPatch == [i \in {} |-> 0]

\* the byte at offset i < r.size
ReadByte(r, i) == IF i \in DOMAIN r.patch THEN r.patch[i] ELSE OrigByte(i)

\* open(romFile, "r+b"); f.seek(startOffset); f.write(data): nothing is truncated,
\* a write past the end grows the file, and the bytes skipped by the seek read 0
writeROM(r, startOffset, data) ==
    IF data = <<>> THEN r
    ELSE LET written == startOffset..(startOffset + Len(data) - 1)
             hole == r.size..(startOffset - 1)
         IN [size  |-> Max(r.size, startOffset + Len(data)),
             patch |-> [i \in DOMAIN r.patch \cup hole \cup written |->
                          IF i \in written THEN data[i - startOffset + 1]
                          ELSE IF i \in hole THEN 0
                          ELSE r.patch[i]]]

-----------------------------------------------------------------------------
(* One run of the script *)

Idle ==
    /\ lengthText = None /\ replacedText = <<>>
    /\ encodedData = <<>> /\ totalBytes = 0 /\ pointersList = <<>>
    /\ excess = None /\ freeBytes = None /\ status = None
    /\ error = "none" /\ writes = <<>>

Init ==
    /\ pc = "start"
    /\ \/ /\ argc \in ArgCounts
          /\ firstLine \in FirstLines
          /\ body \in Bodies
       \/ /\ argc = 3
          /\ firstLine = BigFirstLine
          /\ body = LongBody
    /\ rom0 \in {[size |-> n, patch |-> EmptyPatch] : n \in RomSizes}
    /\ rom = rom0
    /\ text = <<>>
    /\ textStartOffset = TEXTSTARTOFFSET
    /\ pointersDistance = POINTERSDISTANCE
    /\ Idle

Exit(code, err) == pc' = "exit" /\ status' = Some(code) /\ error' = err

\* the argument count is not checked
CheckArgsMut ==
    /\ pc = "start"
    /\ pc' = "read"
    /\ UNCHANGED <<argc, firstLine, body, rom, rom0, lengthText, text, replacedText,
                   textStartOffset, pointersDistance, encodedData, totalBytes,
                   pointersList, excess, freeBytes, status, error, writes>>

\* if len(sys.argv) != 3: usage, sys.exit(1)
CheckArgs ==
    /\ pc = "start"
    /\ IF argc # 3 THEN Exit(1, "usage")
       ELSE pc' = "read" /\ UNCHANGED <<status, error>>
    /\ UNCHANGED <<argc, firstLine, body, rom, rom0, lengthText, text, replacedText,
                   textStartOffset, pointersDistance, encodedData, totalBytes,
                   pointersList, excess, freeBytes, writes>>

\* lengthText, text = readTextFile(txtFile)
ReadTextFile ==
    /\ pc = "read"
    /\ IF ParseInt(firstLine) = None
       THEN Exit(1, "textlength") /\ UNCHANGED <<lengthText, text>>
       ELSE /\ lengthText' = ParseInt(firstLine)
            /\ text' = StripLines(ReadLines(body))
            /\ pc' = "replace"
            /\ UNCHANGED <<status, error>>
    /\ UNCHANGED <<argc, firstLine, body, rom, rom0, replacedText, textStartOffset,
                   pointersDistance, encodedData, totalBytes, pointersList, excess,
                   freeBytes, writes>>

\* replacedText = characterReplacer(text)
ReplaceCharacters ==
    /\ pc = "replace"
    /\ replacedText' = characterReplacer(text)
    /\ pc' = "encode"
    /\ UNCHANGED <<argc, firstLine, body, rom, rom0, lengthText, text, textStartOffset,
                   pointersDistance, encodedData, totalBytes, pointersList, excess,
                   freeBytes, status, error, writes>>

\* encodedData, totalBytes, pointersList = encodeTextsAndPointers(replacedText, ...)
EncodeTexts ==
    /\ pc = "encode"
    /\ LET r == encodeTextsAndPointers(replacedText, TEXTSTARTOFFSET, POINTERSDISTANCE)
       IN /\ encodedData' = r.encodedData
          /\ totalBytes' = r.totalBytes
          /\ pointersList' = r.pointersData
    /\ pc' = "check"
    /\ UNCHANGED <<argc, firstLine, body, rom, rom0, lengthText, text, replacedText,
                   textStartOffset, pointersDistance, excess, freeBytes, status, error,
                   writes>>

\* the check rejects a block that fills the capacity exactly
CheckSizeMut ==
    /\ pc = "check"
    /\ IF Len(encodedData) >= lengthText[1]
       THEN /\ excess' = Some(Len(encodedData) - lengthText[1])
            /\ Exit(1, "capacity")
            /\ UNCHANGED freeBytes
       ELSE /\ freeBytes' = Some(lengthText[1] - Len(encodedData))
            /\ pc' = "writeText"
            /\ UNCHANGED <<excess, status, error>>
    /\ UNCHANGED <<argc, firstLine, body, rom, rom0, lengthText, text, replacedText,
                   textStartOffset, pointersDistance, encodedData, totalBytes,
                   pointersList, writes>>

\* if len(encodedData) > int(lengthText): ... sys.exit(1); freeBytes = ...
CheckSize ==
    /\ pc = "check"
    /\ IF Len(encodedData) > lengthText[1]
       THEN /\ excess' = Some(Len(encodedData) - lengthText[1])
            /\ Exit(1, "capacity")
            /\ UNCHANGED freeBytes
       ELSE /\ freeBytes' = Some(lengthText[1] - Len(encodedData))
            /\ pc' = "writeText"
            /\ UNCHANGED <<excess, status, error>>
    /\ UNCHANGED <<argc, firstLine, body, rom, rom0, lengthText, text, replacedText,
                   textStartOffset, pointersDistance, encodedData, totalBytes,
                   pointersList, writes>>

\* writeROM(romFile, TEXTSTARTOFFSET, encodedData)
WriteText ==
    /\ pc = "writeText"
    /\ rom' = writeROM(rom, TEXTSTARTOFFSET, encodedData)
    /\ writes' = Append(writes, [offset |-> TEXTSTARTOFFSET, data |-> encodedData])
    /\ pc' = "writePointers"
    /\ UNCHANGED <<argc, firstLine, body, rom0, lengthText, text, replacedText,
                   textStartOffset, pointersDistance, encodedData, totalBytes,
                   pointersList, excess, freeBytes, status, error>>

\* writeROM(romFile, POINTERSSTARTOFFSET, pointersList), then the report
WritePointers ==
    /\ pc = "writePointers"
    /\ rom' = writeROM(rom, POINTERSSTARTOFFSET, pointersList)
    /\ writes' = Append(writes, [offset |-> POINTERSSTARTOFFSET, data |-> pointersList])
    /\ Exit(0, "none")
    /\ UNCHANGED <<argc, firstLine, body, rom0, lengthText, text, replacedText,
                   textStartOffset, pointersDistance, encodedData, totalBytes,
                   pointersList, excess, freeBytes>>

\* a failed write restores the image
WriteFailsMut ==
    /\ pc \in {"writeText", "writePointers"}
    /\ Exit(1, "oserror")
    /\ rom' = rom0
    /\ UNCHANGED <<argc, firstLine, body, rom0, lengthText, text, replacedText,
                   textStartOffset, pointersDistance, encodedData, totalBytes,
                   pointersList, excess, freeBytes, writes>>

\* open() in writeROM raises OSError (image missing or not writable): nothing is
\* caught, the interpreter prints the traceback and exits with status 1
WriteFails ==
    /\ pc \in {"writeText", "writePointers"}
    /\ Exit(1, "oserror")
    /\ UNCHANGED <<argc, firstLine, body, rom, rom0, lengthText, text, replacedText,
                   textStartOffset, pointersDistance, encodedData, totalBytes,
                   pointersList, excess, freeBytes, writes>>

Next ==
    \/ CheckArgs
    \/ ReadTextFile
    \/ ReplaceCharacters
    \/ EncodeTexts
    \/ CheckSize
    \/ WriteText
    \/ WritePointers
    \/ WriteFails

Spec == Init /\ [][Next]_vars

-----------------------------------------------------------------------------
(* The two functions called on their own *)

\* lists of lines, stripped or not, and every one-character record
TextLists ==
    {ReadLines(b) : b \in Bodies} \cup {StripLines(ReadLines(b)) : b \in Bodies}
        \cup {<< <<c>> >> : c \in 0..255}

InitEnc ==
    /\ pc = "callReplacer"
    /\ text \in TextLists
    /\ textStartOffset \in Offsets
    /\ pointersDistance \in Distances
    /\ argc = 3 /\ firstLine = <<>> /\ body = <<>>
    /\ rom0 = [size |-> 0, patch |-> EmptyPatch]
    /\ rom = rom0
    /\ Idle

CallReplacer ==
    /\ pc = "callReplacer"
    /\ replacedText' = characterReplacer(text)
    /\ pc' = "callEncode"
    /\ UNCHANGED <<argc, firstLine, body, rom, rom0, lengthText, text, textStartOffset,
                   pointersDistance, encodedData, totalBytes, pointersList, excess,
                   freeBytes, status, error, writes>>

CallEncode ==
    /\ pc = "callEncode"
    /\ LET r == encodeTextsAndPointers(replacedText, textStartOffset, pointersDistance)
       IN /\ encodedData' = r.encodedData
          /\ totalBytes' = r.totalBytes
          /\ pointersList' = r.pointersData
    /\ pc' = "returned"
    /\ UNCHANGED <<argc, firstLine, body, rom, rom0, lengthText, text, replacedText,
                   textStartOffset, pointersDistance, excess, freeBytes, status, error,
                   writes>>

NextEnc ==
    \/ CallReplacer
    \/ CallEncode

SpecEnc == InitEnc /\ [][NextEnc]_vars

-----------------------------------------------------------------------------
(* Properties of the two functions (SpecEnc) *)

NumRecords == Len(text)

NumPointers == Len(pointersList) \div 2

RECURSIVE SumEncoded(_, _)
\* the encoded byte length of the first n records
SumEncoded(texts, n) ==
    IF n = 0 THEN 0 ELSE SumEncoded(texts, n - 1) + Len(Utf8Encode(texts[n]))

\* where record i (from 0) starts in the image
RecordStart(i) == textStartOffset + SumEncoded(replacedText, i)

\* the corrected pointer of record i (from 0)
Corrected(i) == RecordStart(i) - pointersDistance

\* the i-th (from 0) two-byte entry of the table, as it is stored
Entry(i) == <<pointersList[2 * i + 1], pointersList[2 * i + 2]>>

\* entry i with the byte swap reversed, plus the distance
Decoded(i) == (Entry(i)[2] * 256 + Entry(i)[1]) + pointersDistance

\* C1 as claimed: N >= 1 records give N-1 pointers, 2*(N-1) bytes of table.
C1_TableHasNMinusOnePointers ==
    (pc = "returned" /\ NumRecords >= 1) => Len(pointersList) = 2 * (NumRecords - 1)

\* C1 amended: N >= 1 records give N pointers (2*N bytes of table), one per record:
\* only the pointer past the last record is dropped, so 2 records give 2 pointers.
C1_TableHasNPointers ==
    (pc = "returned" /\ NumRecords >= 1) => Len(pointersList) = 2 * NumRecords

C1_Witness == pc = "returned" /\ NumRecords = 2 /\ Len(pointersList) = 4

\* C2 as claimed: every table entry, byte swap reversed and distance added, is
\* the start of its record: textStartOffset plus the encoded length of the records before it.
C2_PointerLocatesRecord ==
    pc = "returned" => \A i \in 0..(NumPointers - 1) : Decoded(i) = RecordStart(i)

\* C2 amended: the decoded entry minus the distance is the low 16 bits of the corrected
\* pointer, so it is the start of the record whenever the corrected pointer is in 0..0xFFFF.
C2_PointerLocatesRecordMod16 ==
    pc = "returned" =>
        \A i \in 0..(NumPointers - 1) :
            /\ Decoded(i) - pointersDistance = Corrected(i) % 65536
            /\ Corrected(i) \in 0..65535 => Decoded(i) = RecordStart(i)

C2_Witness ==
    /\ pc = "returned"
    /\ \E i \in 1..(NumPointers - 1) :
          /\ RecordStart(i) > textStartOffset
          /\ Corrected(i) \in 0..65535
          /\ Decoded(i) = RecordStart(i)

\* the substitution table as (key, value) pairs
Table ==
    { <<63, 35>>, <<191, 36>>, <<225, 37>>, <<233, 75>>, <<237, 87>>,
      <<243, 88>>, <<250, 119>>, <<241, 41>>, <<193, 39>>, <<201, 40>> }

Substituted(c) ==
    IF \E p \in Table : p[1] = c THEN (CHOOSE p \in Table : p[1] = c)[2] ELSE c

\* sub occurs in s as a contiguous run
Occurs(sub, s) ==
    \E k \in 0..(Len(s) - Len(sub)) : \A j \in 1..Len(sub) : s[k + j] = sub[j]

\* C6: characterReplacer keeps the number of strings and the length of each, maps every
\* key of the ten-entry table to its value (the last character included) and leaves
\* every other character alone; the block encoded from its result holds no key's encoding.
C6_SubstitutionCorrect ==
    /\ Cardinality(Table) = 10
    /\ pc \in {"callEncode", "returned"} =>
          /\ Len(replacedText) = Len(text)
          /\ \A i \in 1..Len(text) :
                /\ Len(replacedText[i]) = Len(text[i])
                /\ \A k \in 1..Len(text[i]) : replacedText[i][k] = Substituted(text[i][k])
    /\ pc = "returned" => \A p \in Table : ~Occurs(Utf8Char(p[1]), encodedData)

C6_Witness ==
    /\ pc = "returned"
    /\ \E i \in 1..Len(text) :
          /\ Len(text[i]) = 2
          /\ text[i] = <<252, 233>>
          /\ replacedText[i] = <<252, 75>>
          /\ Occurs(<<195, 188, 75>>, encodedData)

\* C9: the two bytes emitted for a corrected pointer c of either sign and any size are
\* c mod 256 and then (c div 256) mod 256: the low 16 bits of c, low byte first.
C9_LowSixteenBitsLowByteFirst ==
    pc = "returned" =>
        /\ Len(pointersList) = 2 * NumPointers
        /\ \A i \in 0..(NumPointers - 1) :
              Entry(i) = <<Corrected(i) % 256, (Corrected(i) \div 256) % 256>>

C9_Witness ==
    /\ pc = "returned"
    /\ \E i \in 0..(NumPointers - 1) :
          /\ Corrected(i) > 65535
          /\ Entry(i) = <<Corrected(i) % 256, (Corrected(i) \div 256) % 256>>

-----------------------------------------------------------------------------
(* Properties of a run (Spec) *)

\* the capacity check has been made
Checked ==
    \/ pc \in {"writeText", "writePointers"}
    \/ pc = "exit" /\ error \in {"capacity", "none", "oserror"}

\* C3: the check fails exactly when the encoded length is above the declared capacity,
\* with excess = length - capacity, and otherwise passes with free = capacity - length;
\* capacity = length passes with 0 free, capacity = length - 1 fails with excess 1.
C3_CapacityCheck ==
    Checked =>
        LET n == Len(encodedData)
            cap == lengthText[1]
        IN /\ error = "capacity" <=> n > cap
           /\ error = "capacity" =>
                 pc = "exit" /\ status = Some(1) /\ excess = Some(n - cap) /\ freeBytes = None
           /\ error # "capacity" => freeBytes = Some(cap - n) /\ excess = None
           /\ cap = n => error # "capacity" /\ freeBytes = Some(0)
           /\ cap = n - 1 => error = "capacity" /\ excess = Some(1)

C3_Witness ==
    /\ pc = "exit" /\ error = "capacity"
    /\ Len(encodedData) = lengthText[1] + 1
    /\ excess = Some(1)

\* C4: nothing is written before all validation has passed: a wrong argument count, a
\* first line that is no integer or an encoded length above the capacity ends the run
\* with a non-zero status and the image as it was.
C4_NoWriteBeforeValidation ==
    /\ writes # <<>> =>
          /\ argc = 3
          /\ ParseInt(firstLine) # None
          /\ Len(encodedData) <= ParseInt(firstLine)[1]
    /\ (pc = "exit" /\ \/ argc # 3
                       \/ ParseInt(firstLine) = None
                       \/ Len(encodedData) > ParseInt(firstLine)[1]) =>
          /\ status = Some(1)
          /\ rom = rom0
          /\ writes = <<>>

C4_Witness ==
    /\ pc = "exit" /\ error = "capacity"
    /\ Len(encodedData) > 0
    /\ status = Some(1) /\ rom = rom0 /\ writes = <<>>

HasEmptyRecord == \E i \in 1..Len(text) : text[i] = <<>>

\* C5: an empty record is rejected: the encoder returns no pointer table for a list
\* holding one, and nothing is written to the image.
C5_EmptyRecordRejected ==
    HasEmptyRecord => pointersList = <<>> /\ writes = <<>>

InRange(i, offset, data) == offset <= i /\ i < offset + Len(data)

\* C7: a successful run changes only bytes of the two written ranges and leaves the
\* image's length as it was, also for an image that ends before the end of a range.
C7_OnlyRangesChangeLengthKept ==
    (pc = "exit" /\ status = Some(0)) =>
        /\ rom.size = rom0.size
        /\ \A i \in DOMAIN rom.patch :
              \/ InRange(i, TEXTSTARTOFFSET, encodedData)
              \/ InRange(i, POINTERSSTARTOFFSET, pointersList)

\* C8: the range written for the text and the range written for the pointer table
\* are disjoint, whatever the declared capacity and the records.
C8_WrittenRangesDisjoint ==
    Len(writes) = 2 =>
        ~ \E i \in writes[2].offset..(writes[2].offset + Len(writes[2].data) - 1) :
              InRange(i, writes[1].offset, writes[1].data)

====
